---- MODULE Spec2Model ----
(***************************************************************************)
(* The deduplication pipeline of backend/services/dedup_logic.py           *)
(* (DedupAgent.run and its five steps) as driven by trigger_dedup in       *)
(* backend/main.py.                                                        *)
(*                                                                         *)
(* Units.  Scores (fused score, confidence, thresholds) are integers in    *)
(* units of 1/Scale = 0.0001.  A cosine similarity is an integer numerator *)
(* over CosDen = 7000, so that 0.7 * cosine is a whole number of score     *)
(* units (cosine 6200/7000 with overlap 1 fuses to exactly 0.92).          *)
(* Embeddings are integer vectors of one common length, so that their      *)
(* cosine is the exact fraction dot(u, v) / dot(u, u).                     *)
(* Strings the code inspects character by character (descriptions,         *)
(* adjudicator responses) are sequences of one-character strings.          *)
(***************************************************************************)
EXTENDS Integers, Sequences, FiniteSets, TLC

VARIABLES
    tbl,          \* the fetched table: record -> [item_code, barcode, DESCR, DESCR60]
    df,           \* annotation columns: record -> [group_id, match_type, confidence, review_required]
    cols,         \* which annotation columns exist in df.columns
    pc,           \* position of the run: the step about to execute
    http,         \* outcome of trigger_dedup: "pending", "200" or "500"
    chunk_size,   \* FuzzyMatchStep.process: rows per chunk
    remaining,    \* FuzzyMatchStep.process: records with null group_id at stage start, in df order
    texts,        \* FuzzyMatchStep.process: normalized text per position of remaining
    embeddings,   \* FuzzyMatchStep.process: the embedding of each position of remaining
    visited,      \* FuzzyMatchStep.process: set of visited positions
    chunk_i,      \* FuzzyMatchStep.process: i, first position of the current chunk
    chunk_row,    \* FuzzyMatchStep.process: chunk_row_idx, next row of the chunk
    confirmed,    \* history: <<anchor record, candidate record, score>> for every final_score > threshold
    snap,         \* history: df as it was when the step that ran last started
    rerank_resp,  \* history: group id -> adjudicator outcome, for the groups the Reranker sent
    llm_resp,     \* history: group id -> adjudicator outcome, for the groups the LLM step sent
    ran,          \* history: names of the steps whose process() was entered
    detail        \* trigger_dedup: what the HTTPException reports, "" while none was raised

vars == <<tbl, df, cols, pc, http, chunk_size, remaining, texts, embeddings, visited,
          chunk_i, chunk_row, confirmed, snap, rerank_resp, llm_resp, ran, detail>>

-----------------------------------------------------------------------------
(* Bounds of the model *)

\* number of records in the fetched table
MaxRecords == 4
\* largest chunk size of SpecChunk, which runs the search with chunk sizes 1..MaxChunk
MaxChunk == 5

Records == 1 .. MaxRecords

-----------------------------------------------------------------------------
(* Units and program constants *)

Scale == 100 * 100
CosDen == 7 * 1000

\* FuzzyMatchStep(threshold = 0.90)
PrimaryThreshold == 9000
\* candidate pre-filter margin: self.threshold - 0.15
CandidateMargin == 1500
\* 70% vector + 30% keyword, in tenths
VectorWeight == 7
KeywordWeight == 3
\* Reranker gray area: confidence < 0.95
PrecisionThreshold == 9500
\* Reranker demotion: score < 0.8
DemotionThreshold == 8000
\* LLMAssistedStep band: 0.7 < confidence < 0.9
AmbiguousLow == 7000
AmbiguousHigh == 9000
\* HumanReviewStep: confidence < 0.8
ReviewThreshold == 8000
\* chunk_size = 5000
DefaultChunkSize == 5000
\* Vertex AI batch_size = 250
EmbedBatchSize == 250

-----------------------------------------------------------------------------
(* Null values of the nullable columns *)

\* a null key (item_code / barcode is NaN/None)
NullKey == 0
\* group_id is None
NoGroup == <<"none", 0>>
\* match_type is None
NoMatch == "null"
\* confidence is NaN; also what float("nan") yields.  Below every score.
NaN == 0 - 10 * Scale
\* a null DESCR / DESCR60 (distinct from the empty string until fillna(''))
NullText == <<"NULL">>

IsNa(g) == g = NoGroup

\* pandas comparisons with NaN are False
ConfLt(c, x) == c # NaN /\ c < x
ConfGt(c, x) == c # NaN /\ c > x

NoAnnotation ==
    [group_id |-> NoGroup, match_type |-> NoMatch, confidence |-> NaN,
     review_required |-> FALSE]

-----------------------------------------------------------------------------
(* Text: str.lower, re.sub, str.split, ' '.join, str.strip *)

UpperToLower ==
    [c \in {"A", "B", "C", "E", "H", "I", "L", "M", "N", "O", "S", "Y"} |->
        CASE c = "A" -> "a" [] c = "B" -> "b" [] c = "C" -> "c" [] c = "E" -> "e"
          [] c = "H" -> "h" [] c = "I" -> "i" [] c = "L" -> "l" [] c = "M" -> "m"
          [] c = "N" -> "n" [] c = "O" -> "o" [] c = "S" -> "s" [] c = "Y" -> "y"]

LowerChar(c) == IF c \in DOMAIN UpperToLower THEN UpperToLower[c] ELSE c

\* text.lower()
Lower(s) == [k \in 1 .. Len(s) |-> LowerChar(s[k])]

Whitespace == {" ", "\t", "\n"}

LowerAlnum ==
    {"a", "b", "c", "d", "e", "f", "g", "h", "i", "j", "k", "l", "m", "n", "o",
     "p", "q", "r", "s", "t", "u", "v", "w", "x", "y", "z",
     "0", "1", "2", "3", "4", "5", "6", "7", "8", "9"}

\* re.sub(r'[^a-z0-9\s]', ' ', text)
SubSpecial(s) ==
    [k \in 1 .. Len(s) |-> IF s[k] \in LowerAlnum \cup Whitespace THEN s[k] ELSE " "]

RECURSIVE SplitFrom(_, _, _)
\* text.split(): the maximal runs of non-whitespace, in order
SplitFrom(s, k, word) ==
    IF k > Len(s)
    THEN IF word = <<>> THEN <<>> ELSE <<word>>
    ELSE IF s[k] \in Whitespace
         THEN (IF word = <<>> THEN <<>> ELSE <<word>>) \o SplitFrom(s, k + 1, <<>>)
         ELSE SplitFrom(s, k + 1, Append(word, s[k]))

Split(s) == SplitFrom(s, 1, <<>>)

RECURSIVE Join(_)
\* ' '.join(words)
Join(words) ==
    IF words = <<>> THEN <<>>
    ELSE IF Len(words) = 1 THEN Head(words)
    ELSE Head(words) \o <<" ">> \o Join(Tail(words))

normalize_text(text) ==
    IF text = <<>> THEN <<>> ELSE Join(Split(SubSpecial(Lower(text))))

\* fillna('')
FillNa(t) == IF t = NullText THEN <<>> ELSE t

\* (DESCR.fillna('') + " " + DESCR60.fillna('')).apply(normalize_text)
NormDescr(rec) == normalize_text(FillNa(rec.DESCR) \o <<" ">> \o FillNa(rec.DESCR60))

\* set(text.split())
\* set(text.split())
TokenSet(text) == LET words == Split(text) IN {words[k] : k \in 1 .. Len(words)}

RECURSIVE LStrip(_)
LStrip(s) == IF s # <<>> /\ Head(s) \in Whitespace THEN LStrip(Tail(s)) ELSE s

RECURSIVE RStrip(_)
RStrip(s) ==
    IF s # <<>> /\ s[Len(s)] \in Whitespace THEN RStrip(SubSeq(s, 1, Len(s) - 1)) ELSE s

\* text.strip()
Strip(s) == RStrip(LStrip(s))

\* needle in hay
Contains(hay, needle) ==
    \E k \in 0 .. (Len(hay) - Len(needle)) : SubSeq(hay, k + 1, k + Len(needle)) = needle

-----------------------------------------------------------------------------
(* float(response.text.strip()) *)

Digits == {"0", "1", "2", "3", "4", "5", "6", "7", "8", "9"}

DigitVal(c) ==
    CASE c = "0" -> 0 [] c = "1" -> 1 [] c = "2" -> 2 [] c = "3" -> 3 [] c = "4" -> 4
      [] c = "5" -> 5 [] c = "6" -> 6 [] c = "7" -> 7 [] c = "8" -> 8 [] c = "9" -> 9

RECURSIVE IntOf(_)
\* value of a digit string read as an integer
IntOf(ds) == IF ds = <<>> THEN 0 ELSE 10 * IntOf(SubSeq(ds, 1, Len(ds) - 1)) + DigitVal(ds[Len(ds)])

RECURSIVE FracOf(_, _)
\* value of a digit string read after the decimal point, in units of 1/unit
\* (digits beyond the score resolution are dropped)
FracOf(ds, unit) ==
    IF ds = <<>> \/ unit < 10 THEN 0
    ELSE DigitVal(Head(ds)) * (unit \div 10) + FracOf(Tail(ds), unit \div 10)

AllDigits(ds) == \A k \in 1 .. Len(ds) : ds[k] \in Digits

\* the unsigned part: digits, optionally with one decimal point, at least one digit
ParseUnsigned(u) ==
    LET dots == {k \in 1 .. Len(u) : u[k] = "."} IN
    IF dots = {}
    THEN IF u # <<>> /\ AllDigits(u)
         THEN [ok |-> TRUE, val |-> IntOf(u) * Scale]
         ELSE [ok |-> FALSE, val |-> 0]
    ELSE LET d == CHOOSE k \in dots : TRUE
             ip == SubSeq(u, 1, d - 1)
             fp == SubSeq(u, d + 1, Len(u))
         IN  IF Cardinality(dots) = 1 /\ AllDigits(ip) /\ AllDigits(fp) /\ Len(ip) + Len(fp) > 0
             THEN [ok |-> TRUE, val |-> IntOf(ip) * Scale + FracOf(fp, Scale)]
             ELSE [ok |-> FALSE, val |-> 0]

\* float(text.strip()): ok = FALSE stands for ValueError.  Covers signed decimal
\* literals and "nan"; exponents, "inf" and digit separators are not among the
\* response texts of the model.
ParseFloat(text) ==
    LET t == Strip(text)
        signed == t # <<>> /\ Head(t) \in {"+", "-"}
        u == IF signed THEN Tail(t) ELSE t
        p == ParseUnsigned(u)
    IN  IF Lower(u) = <<"n", "a", "n">>
        THEN [ok |-> TRUE, val |-> NaN]
        ELSE IF p.ok /\ signed /\ Head(t) = "-"
             THEN [ok |-> TRUE, val |-> 0 - p.val]
             ELSE p

-----------------------------------------------------------------------------
(* Step 1: ExactMatchStep.process *)

\* rows of d[rows].duplicated(field, keep=False) that groupby(field) keeps
\* (groupby drops the null keys that duplicated() counts as equal)
Dupes(rows, field) ==
    {r \in rows : /\ tbl[r][field] # NullKey
                  /\ \E r2 \in rows \ {r} : tbl[r2][field] = tbl[r][field]}

ExactItem(d) ==
    [r \in Records |->
        IF r \in Dupes(Records, "item_code")
        THEN [d[r] EXCEPT !.group_id = <<"exact_item", tbl[r].item_code>>,
                          !.match_type = "exact_item_code"]
        ELSE d[r]]

\* barcode grouping over every row instead of the rows still ungrouped
ExactBarcodeAllRows(d) ==
    [r \in Records |->
        IF r \in Dupes(Records, "barcode")
        THEN [d[r] EXCEPT !.group_id = <<"exact_barcode", tbl[r].barcode>>,
                          !.match_type = "exact_barcode"]
        ELSE d[r]]

ExactBarcode(d) ==
    LET rem == {r \in Records : IsNa(d[r].group_id)} IN
    [r \in Records |->
        IF r \in Dupes(rem, "barcode")
        THEN [d[r] EXCEPT !.group_id = <<"exact_barcode", tbl[r].barcode>>,
                          !.match_type = "exact_barcode"]
        ELSE d[r]]

ExactMatchProcess(d) == ExactBarcode(ExactItem(d))

-----------------------------------------------------------------------------
(* Step 2: FuzzyMatchStep.process, the scores *)

Min(a, b) == IF a < b THEN a ELSE b

\* overlap = len(set1 & set2) / min(len(set1), len(set2)), 0 if either set is
\* empty: the fraction <<numerator, denominator>>
Overlap(t1, t2) ==
    LET set1 == TokenSet(t1)
        set2 == TokenSet(t2)
    IN  IF set1 = {} \/ set2 = {} THEN <<0, 1>>
        ELSE <<Cardinality(set1 \cap set2), Min(Cardinality(set1), Cardinality(set2))>>

\* the fused score with its keyword term left out: 0.7 * cosine
FinalNumWithoutKeyword(cos, ov) == VectorWeight * cos * Scale * ov[2]

\* final_score = 0.7 * cosine + 0.3 * overlap as the fraction FinalNum / FinalDen
\* of a score unit
FinalNum(cos, ov) ==
    VectorWeight * cos * Scale * ov[2] + KeywordWeight * Scale * CosDen * ov[1]

FinalDen(ov) == 10 * CosDen * ov[2]

\* float(final_score), in score units
FinalScore(cos, ov) == FinalNum(cos, ov) \div FinalDen(ov)

\* final_score > threshold, for a threshold in score units
ExceedsThreshold(cos, ov, threshold) == FinalNum(cos, ov) > threshold * FinalDen(ov)

\* final_score > self.threshold
AboveThreshold(cos, ov) == ExceedsThreshold(cos, ov, PrimaryThreshold)

\* sim > self.threshold - 0.15
IsCandidate(cos) == cos * Scale > (PrimaryThreshold - CandidateMargin) * CosDen

-----------------------------------------------------------------------------
(* Step 2: FuzzyMatchStep.process, the chunked search *)

\* len(remaining)
NumRemaining == Len(remaining)

Positions == 0 .. (NumRemaining - 1)

\* remaining.index[p] / remaining.iloc[p].name: the record at 0-based position p
RecordAt(p) == remaining[p + 1]

\* every record taken for the search, grouped or not, in df order
RemainingOfAllRows(d) == [k \in 1 .. MaxRecords |-> k]

\* the records with a null group_id, in df order
RemainingOf(d) ==
    LET S == {r \in Records : IsNa(d[r].group_id)}
        n == Cardinality(S)
    IN  [k \in 1 .. n |-> CHOOSE r \in S : Cardinality({q \in S : q < r}) = k - 1]

\* the number of embedding requests: one per batch of batch_size texts
NumBatches(n) == (n + EmbedBatchSize - 1) \div EmbedBatchSize

\* end_idx = min(i + chunk_size, len(remaining))
EndIdx(i) == Min(i + chunk_size, NumRemaining)

Dot(u, v) == u[1] * v[1] + u[2] * v[2] + u[3] * v[3]

\* sklearn's cosine_similarity of two vectors, dot(u, v) / (|u| * |v|), as a
\* numerator over CosDen; the vectors of the model all have the length of u
CosineSimilarity(u, v) == (Dot(u, v) * CosDen) \div Dot(u, u)

\* chunk_embeddings = embeddings[i:end_idx]
ChunkEmbeddings(i) == [c \in 0 .. (EndIdx(i) - i - 1) |-> embeddings[i + c]]

\* sim_chunk = cosine_similarity(chunk_embeddings, embeddings):
\* row c of the chunk holds the similarities of position i + c to every position
SimChunk(i) ==
    [c \in DOMAIN ChunkEmbeddings(i) |->
        [s \in Positions |-> CosineSimilarity(ChunkEmbeddings(i)[c], embeddings[s])]]

\* the row's index within its chunk taken for its index in remaining
ActualIdxWithoutOffset(i, c) == c

\* actual_idx = i + chunk_row_idx
ActualIdx(i, c) == i + c

\* np.where(sim_chunk[chunk_row_idx] > threshold - 0.15)[0]
CandidateIndices(i, c) == {s \in Positions : IsCandidate(SimChunk(i)[c][s])}

\* every candidate of the row taken as confirmed, the test of the fused score
\* against the threshold left out
RowHitsAllCandidates(i, c) ==
    LET row == SimChunk(i)[c]
        a == ActualIdx(i, c)
    IN  [s \in CandidateIndices(i, c) \ {a} |->
            FinalScore(row[s], Overlap(texts[a], texts[s]))]

\* the candidates of the row that pass `final_score > self.threshold`, each
\* with its float(final_score)
RowHits(i, c) ==
    LET row == SimChunk(i)[c]
        a == ActualIdx(i, c)
        ov == [s \in CandidateIndices(i, c) \ {a} |-> Overlap(texts[a], texts[s])]
        hit == {s \in DOMAIN ov : AboveThreshold(row[s], ov[s])}
    IN  [s \in hit |-> FinalScore(row[s], ov[s])]

\* the writes of one row with the label the later steps filter on
RowWritesEmbeddingLabel(d, a, hits) ==
    [r \in Records |->
        IF \E s \in DOMAIN hits : RecordAt(s) = r
        THEN LET s == CHOOSE s \in DOMAIN hits : RecordAt(s) = r IN
             [d[r] EXCEPT !.group_id = <<"fuzzy", RecordAt(a)>>,
                          !.match_type = "fuzzy_embedding",
                          !.confidence = hits[s]]
        ELSE d[r]]

\* the writes of one row of the chunk: every confirmed candidate gets the
\* anchor's group id, the label and its own fused score
RowWrites(d, a, hits) ==
    [r \in Records |->
        IF \E s \in DOMAIN hits : RecordAt(s) = r
        THEN LET s == CHOOSE s \in DOMAIN hits : RecordAt(s) = r IN
             [d[r] EXCEPT !.group_id = <<"fuzzy", RecordAt(a)>>,
                          !.match_type = "fuzzy_hybrid",
                          !.confidence = hits[s]]
        ELSE d[r]]

\* visited.add(sim_idx); visited.add(actual_idx), for every confirmed candidate
RowVisited(v, a, hits) ==
    IF DOMAIN hits = {} THEN v ELSE v \cup DOMAIN hits \cup {a}

-----------------------------------------------------------------------------
(* Step 3: CrossEncoderRerankerStep.process *)

\* mask = (match_type == 'fuzzy_hybrid') & (confidence < 0.95)
RerankCandidates(d) ==
    {r \in Records : /\ d[r].match_type = "fuzzy_hybrid"
                     /\ ConfLt(d[r].confidence, PrecisionThreshold)}

\* the rows of one group of candidates.groupby('group_id')
RerankGroup(d, g) == {r \in RerankCandidates(d) : d[r].group_id = g}

\* the groups the loop sends to the model: non-null key, len(group) >= 2
RerankGroups(d) ==
    {g \in {d[r].group_id : r \in RerankCandidates(d)} :
        ~IsNa(g) /\ Cardinality(RerankGroup(d, g)) >= 2}

\* a failed call dissolving the group instead of leaving it as it was
RerankRowFailClosed(rec, outcome) ==
    IF outcome.kind = "error" \/ ~ParseFloat(outcome.text).ok
    THEN [rec EXCEPT !.group_id = NoGroup, !.match_type = "rerank_discarded"]
    ELSE LET score == ParseFloat(outcome.text).val IN
         IF ConfLt(score, DemotionThreshold)
         THEN [rec EXCEPT !.confidence = score, !.group_id = NoGroup,
                          !.match_type = "rerank_discarded"]
         ELSE [rec EXCEPT !.confidence = score, !.match_type = "rerank_verified"]

\* the body of the try blocks for one row of a group
RerankRow(rec, outcome) ==
    IF outcome.kind = "error" \/ ~ParseFloat(outcome.text).ok
    THEN rec
    ELSE LET score == ParseFloat(outcome.text).val IN
         IF ConfLt(score, DemotionThreshold)
         THEN [rec EXCEPT !.confidence = score, !.group_id = NoGroup,
                          !.match_type = "rerank_discarded"]
         ELSE [rec EXCEPT !.confidence = score, !.match_type = "rerank_verified"]

\* the whole loop: resp gives the model's outcome for every group sent
RerankProcess(d, resp) ==
    [r \in Records |->
        IF r \in RerankCandidates(d) /\ d[r].group_id \in DOMAIN resp
        THEN RerankRow(d[r], resp[d[r].group_id])
        ELSE d[r]]

-----------------------------------------------------------------------------
(* Step 4: LLMAssistedStep.process *)

\* (match_type == 'fuzzy_embedding') & (confidence < 0.9) & (confidence > 0.7)
IsAmbiguous(rec) ==
    /\ rec.match_type = "fuzzy_embedding"
    /\ ConfLt(rec.confidence, AmbiguousHigh)
    /\ ConfGt(rec.confidence, AmbiguousLow)

\* group = df[df['group_id'] == group_id]
GroupMembers(d, g) == {r \in Records : d[r].group_id = g}

\* the ambiguous group ids that are not None and have len(group) >= 2
AmbiguousGroups(d) ==
    {g \in {d[r].group_id : r \in {q \in Records : IsAmbiguous(d[q])}} :
        ~IsNa(g) /\ Cardinality(GroupMembers(d, g)) >= 2}

\* "yes" in response.text.lower()
SaysYes(text) == Contains(Lower(text), <<"y", "e", "s">>)

\* the body of the try block for one row of a group
LLMRow(rec, outcome) ==
    IF outcome.kind = "error" THEN rec
    ELSE IF SaysYes(outcome.text)
         THEN [rec EXCEPT !.match_type = "llm_matched"]
         ELSE [rec EXCEPT !.group_id = NoGroup, !.match_type = "llm_discarded"]

\* the verdict written to the ambiguous rows of the group only
LLMProcessAmbiguousOnly(d, resp) ==
    [r \in Records |->
        IF d[r].group_id \in DOMAIN resp /\ IsAmbiguous(d[r])
        THEN LLMRow(d[r], resp[d[r].group_id])
        ELSE d[r]]

\* the whole loop: resp gives the model's outcome for every group sent
LLMProcess(d, resp) ==
    [r \in Records |->
        IF d[r].group_id \in DOMAIN resp THEN LLMRow(d[r], resp[d[r].group_id]) ELSE d[r]]

-----------------------------------------------------------------------------
(* Step 5: HumanReviewStep.process, and the final cleanup of DedupAgent.run *)

\* mask = (match_type == 'fuzzy_embedding') & (confidence < 0.8)
ReviewMask(d) ==
    {r \in Records : /\ d[r].match_type = "fuzzy_embedding"
                     /\ ConfLt(d[r].confidence, ReviewThreshold)}

\* the flagged records also taken out of their group
ReviewProcessDemoting(d) ==
    [r \in Records |->
        IF r \in ReviewMask(d)
        THEN [d[r] EXCEPT !.review_required = TRUE, !.group_id = NoGroup]
        ELSE d[r]]

\* df.loc[mask, 'review_required'] = True
ReviewProcess(d) ==
    [r \in Records |-> IF r \in ReviewMask(d) THEN [d[r] EXCEPT !.review_required = TRUE] ELSE d[r]]

\* counts = df['group_id'].value_counts(); counts[counts == 1].index
SingleItemGroups(d) ==
    {g \in {d[r].group_id : r \in Records} :
        ~IsNa(g) /\ Cardinality(GroupMembers(d, g)) = 1}

\* the cleanup without its `df.loc[mask, 'group_id'] = None`
CleanupLabelOnly(d) ==
    [r \in Records |->
        IF d[r].group_id \in SingleItemGroups(d)
        THEN [d[r] EXCEPT !.match_type = NoMatch]
        ELSE d[r]]

\* df.loc[mask, 'group_id'] = None; df.loc[mask, 'match_type'] = None
Cleanup(d) ==
    [r \in Records |->
        IF d[r].group_id \in SingleItemGroups(d)
        THEN [d[r] EXCEPT !.group_id = NoGroup, !.match_type = NoMatch]
        ELSE d[r]]

-----------------------------------------------------------------------------
(* The inputs: the fetched table, and the collaborators' responses *)

\* key values of the fetched tables (NullKey: the field is null)
KeyValues == {NullKey, 1}

RECURSIVE Repeat(_, _)
Repeat(s, n) == IF n = 0 THEN <<>> ELSE s \o Repeat(s, n - 1)

\* the descriptions of the catalogue: every record has the tokens {a, b}, and
\* no two records have the same normalized text
CatalogDescr(r) == Repeat(<<"a", " ">>, r - 1) \o <<"A", "-", "b">>

CatalogDescr60(r) == IF r % 2 = 1 THEN NullText ELSE <<"B">>

FreshTables ==
    {[r \in Records |->
        [item_code |-> ic[r], barcode |-> bc[r],
         DESCR |-> CatalogDescr(r), DESCR60 |-> CatalogDescr60(r)]] :
      ic \in [Records -> KeyValues], bc \in [Records -> KeyValues]}

\* the vectors the embedding model returns, all of squared length 35:
\*   (5,3,1).(5,1,3) = (5,3,1).(3,5,1) = 31: cosine 31/35, fused 0.92 with overlap 1
\*   (5,3,1).(5,3,-1) = 33: cosine 33/35, fused 0.96 with overlap 1
\*   (3,5,1).(5,3,-1) = 29: cosine 29/35 > 0.75, fused 0.88 with overlap 1
\*   (5,1,3).(3,5,1) = 23 and (5,1,3).(5,3,-1) = 25: cosine below 0.75
EmbeddingVectors == {<<5, 3, 1>>, <<5, 1, 3>>, <<3, 5, 1>>, <<5, 3, -1>>}

\* what _get_embeddings can return for the texts: one vector per position,
\* equal texts embedding to equal vectors
EmbeddingResults(txts) ==
    {e \in [DOMAIN txts -> EmbeddingVectors] :
        \A a, b \in DOMAIN txts : txts[a] = txts[b] => e[a] = e[b]}

\* what a generate_content call can do: raise, or return a text
Raised == [kind |-> "error", text |-> <<>>]

Returned(t) == [kind |-> "text", text |-> t]

\* responses to the scoring prompt: "0.6", " 0.85\n", "n/a", "1.5"
ScoreTexts ==
    {<<"0", ".", "6">>, <<" ", "0", ".", "8", "5", "\n">>, <<"n", "/", "a">>,
     <<"1", ".", "5">>}

RerankOutcomes == {Raised} \cup {Returned(t) : t \in ScoreTexts}

\* responses to the yes/no prompt: "Yes", "no", "unsure"
AnswerTexts ==
    {<<"Y", "e", "s">>, <<"n", "o">>, <<"u", "n", "s", "u", "r", "e">>}

LLMOutcomes == {Raised} \cup {Returned(t) : t \in AnswerTexts}

EmptyMap == [x \in {} |-> 0]

-----------------------------------------------------------------------------
(* trigger_dedup: the state after fetch_data returned an unannotated table *)

InitLocals ==
    /\ remaining = <<>>
    /\ texts = EmptyMap
    /\ embeddings = EmptyMap
    /\ visited = {}
    /\ chunk_i = 0
    /\ chunk_row = 0
    /\ confirmed = {}
    /\ rerank_resp = EmptyMap
    /\ llm_resp = EmptyMap
    /\ ran = {}
    /\ detail = ""
    /\ http = "pending"

Init ==
    /\ tbl \in FreshTables
    /\ df = [r \in Records |-> NoAnnotation]
    /\ cols = {}
    /\ snap = df
    /\ pc = "exact"
    /\ chunk_size = DefaultChunkSize
    /\ InitLocals

-----------------------------------------------------------------------------
(* DedupAgent.run, step by step *)

\* the except clause of trigger_dedup: HTTPException(500, detail = str(e))
Raise(msg) ==
    /\ pc' = "failed"
    /\ http' = "500"
    /\ detail' = msg

ExactMatch ==
    /\ pc = "exact"
    /\ df' = ExactMatchProcess(df)
    /\ cols' = cols \cup {"group_id", "match_type"}
    /\ snap' = df
    /\ ran' = ran \cup {"ExactMatchStep"}
    /\ pc' = "fuzzy_start"
    /\ UNCHANGED <<tbl, http, chunk_size, remaining, texts, embeddings, visited, chunk_i,
                   chunk_row, confirmed, rerank_resp, llm_resp, detail>>

\* `if remaining.empty: return df`
FuzzyNothingRemaining ==
    /\ pc = "fuzzy_start"
    /\ RemainingOf(df) = <<>>
    /\ snap' = df
    /\ ran' = ran \cup {"FuzzyMatchStep"}
    /\ pc' = "rerank"
    /\ UNCHANGED <<tbl, df, cols, http, chunk_size, remaining, texts, embeddings, visited,
                   chunk_i, chunk_row, confirmed, rerank_resp, llm_resp, detail>>

\* normalization, then _get_embeddings returns: the search starts at chunk 0
FuzzyEmbed ==
    /\ pc = "fuzzy_start"
    /\ RemainingOf(df) # <<>>
    /\ remaining' = RemainingOf(df)
    /\ texts' = [p \in 0 .. (Len(remaining') - 1) |-> NormDescr(tbl[remaining'[p + 1]])]
    /\ embeddings' \in EmbeddingResults(texts')
    /\ visited' = {}
    /\ chunk_i' = 0
    /\ chunk_row' = 0
    /\ snap' = df
    /\ ran' = ran \cup {"FuzzyMatchStep"}
    /\ pc' = "fuzzy"
    /\ UNCHANGED <<tbl, df, cols, http, chunk_size, confirmed, rerank_resp, llm_resp,
                   detail>>

\* the failure of the embedding request noted and the run carried on
FuzzyEmbedFailsSwallowed ==
    /\ pc = "fuzzy_start"
    /\ RemainingOf(df) # <<>>
    /\ snap' = df
    /\ ran' = ran \cup {"FuzzyMatchStep"}
    /\ detail' = "embedding"
    /\ pc' = "rerank"
    /\ UNCHANGED <<tbl, df, cols, http, chunk_size, remaining, texts, embeddings, visited,
                   chunk_i, chunk_row, confirmed, rerank_resp, llm_resp>>

\* one of the get_embeddings batch requests raises: nothing catches it before
\* trigger_dedup does
FuzzyEmbedFails ==
    /\ pc = "fuzzy_start"
    /\ RemainingOf(df) # <<>>
    /\ NumBatches(Len(RemainingOf(df))) >= 1
    /\ snap' = df
    /\ ran' = ran \cup {"FuzzyMatchStep"}
    /\ Raise("embedding")
    /\ UNCHANGED <<tbl, df, cols, chunk_size, remaining, texts, embeddings, visited, chunk_i,
                   chunk_row, confirmed, rerank_resp, llm_resp>>

\* one iteration of `for chunk_row_idx in range(len(sim_chunk))`
FuzzyRow ==
    /\ pc = "fuzzy"
    /\ chunk_row < EndIdx(chunk_i) - chunk_i
    /\ IF ActualIdx(chunk_i, chunk_row) \in visited
       THEN UNCHANGED <<df, cols, visited, confirmed>>
       ELSE LET a == ActualIdx(chunk_i, chunk_row)
                hits == RowHits(chunk_i, chunk_row)
            IN  /\ df' = RowWrites(df, a, hits)
                /\ visited' = RowVisited(visited, a, hits)
                /\ cols' = IF DOMAIN hits = {} THEN cols ELSE cols \cup {"confidence"}
                /\ confirmed' = confirmed \cup
                      {<<RecordAt(a), RecordAt(s), hits[s]>> : s \in DOMAIN hits}
    /\ chunk_row' = chunk_row + 1
    /\ UNCHANGED <<tbl, pc, http, chunk_size, remaining, texts, embeddings, chunk_i, snap,
                   rerank_resp, llm_resp, ran, detail>>

\* the end of a chunk: the next i of range(0, len(remaining), chunk_size), or,
\* after the last chunk, `return df` (the locals of process() are gone)
FuzzyChunkEnd ==
    /\ pc = "fuzzy"
    /\ chunk_row = EndIdx(chunk_i) - chunk_i
    /\ IF chunk_i + chunk_size < NumRemaining
       THEN /\ chunk_i' = chunk_i + chunk_size
            /\ chunk_row' = 0
            /\ UNCHANGED <<pc, remaining, texts, embeddings, visited>>
       ELSE /\ remaining' = <<>>
            /\ texts' = EmptyMap
            /\ embeddings' = EmptyMap
            /\ visited' = {}
            /\ chunk_i' = 0
            /\ chunk_row' = 0
            /\ pc' = "rerank"
    /\ UNCHANGED <<tbl, df, cols, http, chunk_size, confirmed, snap, rerank_resp,
                   llm_resp, ran, detail>>

\* CrossEncoderRerankerStep.process: df['confidence'] raises KeyError when no
\* step has created the column
Rerank ==
    /\ pc = "rerank"
    /\ snap' = df
    /\ ran' = ran \cup {"CrossEncoderRerankerStep"}
    /\ IF ~({"group_id", "match_type"} \subseteq cols)
       THEN /\ pc' = "llm"
            /\ UNCHANGED <<df, rerank_resp, http, detail>>
       ELSE IF "confidence" \notin cols
            THEN /\ Raise("KeyError: 'confidence'")
                 /\ UNCHANGED <<df, rerank_resp>>
            ELSE /\ \E resp \in [RerankGroups(df) -> RerankOutcomes] :
                       /\ df' = RerankProcess(df, resp)
                       /\ rerank_resp' = resp
                 /\ pc' = "llm"
                 /\ UNCHANGED <<http, detail>>
    /\ UNCHANGED <<tbl, cols, chunk_size, remaining, texts, embeddings, visited, chunk_i,
                   chunk_row, confirmed, llm_resp>>

\* LLMAssistedStep.process
LLMAssisted ==
    /\ pc = "llm"
    /\ snap' = df
    /\ ran' = ran \cup {"LLMAssistedStep"}
    /\ IF ~({"group_id", "confidence"} \subseteq cols)
       THEN UNCHANGED <<df, llm_resp>>
       ELSE \E resp \in [AmbiguousGroups(df) -> LLMOutcomes] :
                /\ df' = LLMProcess(df, resp)
                /\ llm_resp' = resp
    /\ pc' = "review"
    /\ UNCHANGED <<tbl, cols, http, chunk_size, remaining, texts, embeddings, visited, chunk_i,
                   chunk_row, confirmed, rerank_resp, detail>>

\* HumanReviewStep.process
HumanReview ==
    /\ pc = "review"
    /\ snap' = df
    /\ ran' = ran \cup {"HumanReviewStep"}
    /\ df' = ReviewProcess(df)
    /\ cols' = cols \cup {"review_required"}
    /\ pc' = "cleanup"
    /\ UNCHANGED <<tbl, http, chunk_size, remaining, texts, embeddings, visited, chunk_i,
                   chunk_row, confirmed, rerank_resp, llm_resp, detail>>

\* the final cleanup of DedupAgent.run, and `return df`
FinalCleanup ==
    /\ pc = "cleanup"
    /\ snap' = df
    /\ ran' = ran \cup {"Cleanup"}
    /\ df' = IF "group_id" \in cols THEN Cleanup(df) ELSE df
    /\ pc' = "persist"
    /\ UNCHANGED <<tbl, cols, http, chunk_size, remaining, texts, embeddings, visited, chunk_i,
                   chunk_row, confirmed, rerank_resp, llm_resp, detail>>

\* update_dedup_results returns: trigger_dedup answers 200
PersistOk ==
    /\ pc = "persist"
    /\ pc' = "done"
    /\ http' = "200"
    /\ UNCHANGED <<tbl, df, cols, chunk_size, remaining, texts, embeddings, visited, chunk_i,
                   chunk_row, confirmed, snap, rerank_resp, llm_resp, ran, detail>>

\* update_dedup_results raises
PersistFails ==
    /\ pc = "persist"
    /\ Raise("persist")
    /\ UNCHANGED <<tbl, df, cols, chunk_size, remaining, texts, embeddings, visited, chunk_i,
                   chunk_row, confirmed, snap, rerank_resp, llm_resp, ran>>

Next ==
    \/ ExactMatch
    \/ FuzzyNothingRemaining
    \/ FuzzyEmbed
    \/ FuzzyEmbedFails
    \/ FuzzyRow
    \/ FuzzyChunkEnd
    \/ Rerank
    \/ LLMAssisted
    \/ HumanReview
    \/ FinalCleanup
    \/ PersistOk
    \/ PersistFails

Spec == Init /\ [][Next]_vars

-----------------------------------------------------------------------------
(* ExactMatchStep.process alone, on tables with up to two values per key field *)

ExactKeyValues == {NullKey, 1, 2}

ExactTables ==
    {[r \in Records |->
        [item_code |-> ic[r], barcode |-> bc[r],
         DESCR |-> CatalogDescr(r), DESCR60 |-> CatalogDescr60(r)]] :
      ic \in [Records -> ExactKeyValues], bc \in [Records -> ExactKeyValues]}

InitExact ==
    /\ tbl \in ExactTables
    /\ df = [r \in Records |-> NoAnnotation]
    /\ cols = {}
    /\ snap = df
    /\ pc = "exact"
    /\ chunk_size = DefaultChunkSize
    /\ InitLocals

SpecExact == InitExact /\ [][ExactMatch]_vars

-----------------------------------------------------------------------------
(* FuzzyMatchStep.process with the chunk size as a parameter: the search over *)
(* the records ExactMatchStep left ungrouped, for chunk sizes 1 .. MaxChunk   *)

ChunkTables ==
    {[r \in Records |->
        [item_code |-> ic[r], barcode |-> NullKey,
         DESCR |-> CatalogDescr(r), DESCR60 |-> CatalogDescr60(r)]] :
      ic \in [Records -> KeyValues]}

InitChunk ==
    /\ tbl \in ChunkTables
    /\ df = [r \in Records |-> NoAnnotation]
    /\ cols = {}
    /\ snap = df
    /\ pc = "exact"
    /\ chunk_size \in 1 .. MaxChunk
    /\ InitLocals

NextChunk ==
    \/ ExactMatch
    \/ FuzzyNothingRemaining
    \/ FuzzyEmbed
    \/ FuzzyRow
    \/ FuzzyChunkEnd

SpecChunk == InitChunk /\ [][NextChunk]_vars

-----------------------------------------------------------------------------
(* The steps after the similarity search, on a table that came annotated (the  *)
(* output table of an earlier run fetched again): no two records share a key   *)
(* and the similarity stage confirms nothing, so the Reranker starts from the  *)
(* annotations as fetched.                                                     *)

FetchedGroups == {<<"fuzzy", 1>>, <<"fuzzy", 2>>}

FetchedLabels ==
    {<<"fuzzy_hybrid", 9200>>, <<"fuzzy_hybrid", 9700>>,
     <<"fuzzy_embedding", 7500>>, <<"fuzzy_embedding", 9200>>}

AnnotatedRows ==
    {NoAnnotation} \cup
    {[group_id |-> g, match_type |-> x[1], confidence |-> x[2], review_required |-> FALSE] :
        g \in FetchedGroups, x \in FetchedLabels}

InitDownstream ==
    /\ tbl = [r \in Records |->
                [item_code |-> NullKey, barcode |-> NullKey,
                 DESCR |-> CatalogDescr(r), DESCR60 |-> CatalogDescr60(r)]]
    /\ df \in [Records -> AnnotatedRows]
    /\ cols = {"group_id", "match_type", "confidence"}
    /\ snap = df
    /\ pc = "rerank"
    /\ chunk_size = DefaultChunkSize
    /\ remaining = <<>>
    /\ texts = EmptyMap
    /\ embeddings = EmptyMap
    /\ visited = {}
    /\ chunk_i = 0
    /\ chunk_row = 0
    /\ confirmed = {}
    /\ rerank_resp = EmptyMap
    /\ llm_resp = EmptyMap
    /\ ran = {"ExactMatchStep", "FuzzyMatchStep"}
    /\ detail = ""
    /\ http = "pending"

NextDownstream ==
    \/ Rerank
    \/ LLMAssisted
    \/ HumanReview
    \/ FinalCleanup
    \/ PersistOk
    \/ PersistFails

SpecDownstream == InitDownstream /\ [][NextDownstream]_vars

-----------------------------------------------------------------------------
(* FuzzyMatchStep.process on records without keys whose descriptions may be  *)
(* null, and may share their tokens without being equal                      *)

\* DESCR values: null, "A-b", "b a  a" (the tokens {a, b} again)
FusionDescrs == {NullText, <<"A", "-", "b">>, <<"b", " ", "a", " ", " ", "a">>}

FusionTables ==
    {[r \in Records |->
        [item_code |-> NullKey, barcode |-> NullKey,
         DESCR |-> d[r], DESCR60 |-> NullText]] :
      d \in [Records -> FusionDescrs]}

InitFusion ==
    /\ tbl \in FusionTables
    /\ df = [r \in Records |-> NoAnnotation]
    /\ cols = {}
    /\ snap = df
    /\ pc = "exact"
    /\ chunk_size = DefaultChunkSize
    /\ InitLocals

NextFusion ==
    \/ ExactMatch
    \/ FuzzyEmbed
    \/ FuzzyRow
    \/ FuzzyChunkEnd

SpecFusion == InitFusion /\ [][NextFusion]_vars

-----------------------------------------------------------------------------
(* Properties of the full run (Spec) *)

\* DedupAgent.run has returned the record set
RunReturned == "Cleanup" \in ran

Holders(d, g) == {r \in Records : d[r].group_id = g}

IsFuzzyId(g) == g[1] = "fuzzy"

\* C1: once DedupAgent.run has returned, every record's group_id is null or is
\* held by at least two records, and every record that was alone in its group
\* before the final cleanup has both group_id and match_type null.
C1_NoSingletonGroups ==
    RunReturned =>
        /\ \A r \in Records :
              IsNa(df[r].group_id) \/ Cardinality(Holders(df, df[r].group_id)) >= 2
        /\ pc = "persist" =>
              \A r \in Records :
                  (~IsNa(snap[r].group_id) /\ Holders(snap, snap[r].group_id) = {r})
                      => (IsNa(df[r].group_id) /\ df[r].match_type = NoMatch)

\* a run has returned in which the cleanup removed a singleton group and left a
\* group of two or more in place
C1_Witness ==
    /\ pc = "persist"
    /\ \E r \in Records : ~IsNa(snap[r].group_id) /\ Holders(snap, snap[r].group_id) = {r}
    /\ \E r \in Records : ~IsNa(df[r].group_id)

\* C2: when the similarity stage has finished, every fuzzy group id it created
\* is held by at least two records, the anchor row among them.
C2_FuzzyGroupsHaveTwo ==
    (pc = "rerank" /\ "FuzzyMatchStep" \in ran) =>
        \A t \in confirmed :
            /\ df[t[1]].group_id = <<"fuzzy", t[1]>>
            /\ \A r \in Records :
                  (~IsNa(df[r].group_id) /\ IsFuzzyId(df[r].group_id))
                      => Cardinality(Holders(df, df[r].group_id)) >= 2

\* C3: within the similarity stage, a record that holds a fuzzy group keeps its
\* group_id, match_type and confidence through every later row.
C3_FirstClaimWins ==
    [][(pc = "fuzzy" /\ pc' = "fuzzy") =>
          \A r \in Records :
              df[r].match_type = "fuzzy_hybrid" => df'[r] = df[r]]_vars

\* the response was returned and parses as a number
Scored(outcome) == outcome.kind = "text" /\ ParseFloat(outcome.text).ok

\* C4: after the Reranker, for every group it adjudicated successfully with
\* score s, every record that held that group id before the stage has
\* confidence s, and is either discarded (s < 0.8: group_id null,
\* rerank_discarded) or rerank_verified.
C4_WholeGroupRescored ==
    (pc = "llm" /\ "CrossEncoderRerankerStep" \in ran) =>
        \A g \in DOMAIN rerank_resp :
            Scored(rerank_resp[g]) =>
                LET s == ParseFloat(rerank_resp[g].text).val IN
                \A r \in Holders(snap, g) :
                    /\ df[r].confidence = s
                    /\ IF s < DemotionThreshold
                       THEN IsNa(df[r].group_id) /\ df[r].match_type = "rerank_discarded"
                       ELSE df[r].match_type = "rerank_verified"

\* C7: when the similarity stage confirmed exactly one pair, with fused score
\* 0.92, and the scoring adjudicator answers 0.6 whenever it is asked, both
\* records end the run with group_id null and match_type rerank_discarded.
C7_GrayPairDiscarded ==
    (/\ pc = "done"
     /\ Cardinality(confirmed) = 1
     /\ \A t \in confirmed : t[3] = 9200
     /\ \A g \in DOMAIN rerank_resp : rerank_resp[g] = Returned(<<"0", ".", "6">>))
        => \A t \in confirmed :
              \A r \in {t[1], t[2]} :
                  IsNa(df[r].group_id) /\ df[r].match_type = "rerank_discarded"

\* C9: after an embedding request failed, the invocation has answered 500 and
\* is over: no record carries a fuzzy annotation, no later step was entered,
\* and nothing was returned or persisted.
C9_EmbeddingFailClosed ==
    detail = "embedding" =>
        /\ pc = "failed"
        /\ http = "500"
        /\ ran \cap {"CrossEncoderRerankerStep", "LLMAssistedStep", "HumanReviewStep",
                     "Cleanup"} = {}
        /\ "confidence" \notin cols
        /\ \A r \in Records :
              /\ df[r].match_type # "fuzzy_hybrid"
              /\ df[r].confidence = NaN
              /\ IsNa(df[r].group_id) \/ ~IsFuzzyId(df[r].group_id)

\* an embedding request failed in a run that had already formed an exact group
C9_Witness ==
    /\ detail = "embedding"
    /\ \E r \in Records : df[r].match_type = "exact_item_code"
    /\ \E r \in Records : IsNa(df[r].group_id)

-----------------------------------------------------------------------------
(* Properties of the adjudication steps (SpecDownstream) *)

\* the records the Reranker targets, read off the state before the step
InGrayArea(rec) == rec.match_type = "fuzzy_hybrid" /\ ConfLt(rec.confidence, PrecisionThreshold)

\* the yes/no response holds neither keyword
NeitherYesNorNo(outcome) ==
    /\ outcome.kind = "text"
    /\ ~Contains(Lower(outcome.text), <<"y", "e", "s">>)
    /\ ~Contains(Lower(outcome.text), <<"n", "o">>)

\* C5 (Reranker): every group with two or more gray-area records got its own
\* response; a group whose call raised or returned unparsable text is exactly
\* as it was before the step; every other group's gray-area records carry its
\* own score and verdict.
C5_RerankIsolated ==
    pc = "llm" =>
        /\ \A r1, r2 \in Records :
              (/\ r1 # r2
               /\ InGrayArea(snap[r1]) /\ InGrayArea(snap[r2])
               /\ ~IsNa(snap[r1].group_id)
               /\ snap[r1].group_id = snap[r2].group_id)
                  => snap[r1].group_id \in DOMAIN rerank_resp
        /\ \A g \in DOMAIN rerank_resp :
              \A r \in Holders(snap, g) :
                  IF ~Scored(rerank_resp[g])
                  THEN df[r] = snap[r]
                  ELSE InGrayArea(snap[r]) =>
                          /\ df[r].confidence = ParseFloat(rerank_resp[g].text).val
                          /\ df[r].match_type =
                                IF ConfLt(df[r].confidence, DemotionThreshold)
                                THEN "rerank_discarded" ELSE "rerank_verified"

\* C5 (AmbiguityResolver): every group of two or more with an ambiguous member
\* got its own response; a group whose call raised is exactly as it was before
\* the step; every other group carries the verdict of its own response.
C5_LLMIsolated ==
    pc = "review" =>
        /\ \A r1, r2 \in Records :
              (/\ r1 # r2
               /\ IsAmbiguous(snap[r1])
               /\ ~IsNa(snap[r1].group_id)
               /\ snap[r1].group_id = snap[r2].group_id)
                  => snap[r1].group_id \in DOMAIN llm_resp
        /\ \A g \in DOMAIN llm_resp :
              \A r \in Holders(snap, g) :
                  IF llm_resp[g].kind = "error"
                  THEN df[r] = snap[r]
                  ELSE df[r].match_type \in {"llm_matched", "llm_discarded"}

\* C5: a failed adjudicator call leaves its group untouched, the other groups
\* are adjudicated and updated by their own responses, and the run is not
\* aborted by either step (it fails only if persisting the returned set fails).
C5_FailOpenIsolation ==
    /\ C5_RerankIsolated
    /\ C5_LLMIsolated
    /\ pc = "failed" => (detail = "persist" /\ RunReturned)

\* the Reranker has run on two groups: the call for one failed (its pair stays
\* fuzzy_hybrid at 0.92), the call for the other returned a score
C5_Witness ==
    /\ pc = "llm"
    /\ \E g1, g2 \in DOMAIN rerank_resp :
          /\ ~Scored(rerank_resp[g1])
          /\ Scored(rerank_resp[g2])
          /\ \E r \in Holders(df, g1) :
                df[r].match_type = "fuzzy_hybrid" /\ df[r].confidence = 9200
          /\ \E r \in Holders(snap, g2) : df[r].match_type = "rerank_verified"

\* C6: a yes/no response holding neither "yes" nor "no" leaves the group's
\* members with the group_id and match_type they had before the step.
C6_NeitherIsFailure ==
    pc = "review" =>
        \A g \in DOMAIN llm_resp :
            NeitherYesNorNo(llm_resp[g]) =>
                \A r \in Holders(snap, g) :
                    /\ df[r].group_id = snap[r].group_id
                    /\ df[r].match_type = snap[r].match_type

-----------------------------------------------------------------------------
(* Properties of ExactMatchStep (SpecExact) *)

\* the highest-priority non-null key of a record: item_code before barcode
HighestKey(r) ==
    IF tbl[r].item_code # NullKey THEN <<"item_code", tbl[r].item_code>>
    ELSE IF tbl[r].barcode # NullKey THEN <<"barcode", tbl[r].barcode>>
    ELSE <<"none", r>>

SharesItemCode(r) ==
    /\ tbl[r].item_code # NullKey
    /\ \E r2 \in Records \ {r} : tbl[r2].item_code = tbl[r].item_code

\* C8: after ExactMatchStep on an unannotated table, two records with the same
\* highest-priority non-null key value are in one and the same group; every
\* record sharing its item_code holds the item_code group of that code, and
\* no such record is in a barcode group.
C8_ExactKeyGrouping ==
    pc = "fuzzy_start" =>
        /\ \A r1, r2 \in Records :
              (r1 # r2 /\ HighestKey(r1)[1] # "none" /\ HighestKey(r1) = HighestKey(r2))
                  => (~IsNa(df[r1].group_id) /\ df[r1].group_id = df[r2].group_id)
        /\ \A r \in Records :
              SharesItemCode(r) =>
                  /\ df[r].group_id = <<"exact_item", tbl[r].item_code>>
                  /\ df[r].match_type = "exact_item_code"
        /\ \A r \in Records : df[r].match_type = "exact_barcode" => ~SharesItemCode(r)

\* a record of an item_code group has the barcode of two records that form a
\* barcode group
C8_Witness ==
    /\ pc = "fuzzy_start"
    /\ \E r1, r2, r3 \in Records :
          /\ df[r1].match_type = "exact_item_code"
          /\ df[r2].match_type = "exact_barcode"
          /\ df[r3].match_type = "exact_barcode"
          /\ r2 # r3
          /\ tbl[r1].barcode = tbl[r2].barcode

-----------------------------------------------------------------------------
(* Properties of the chunked search (SpecChunk) *)

RECURSIVE ScanRows(_, _, _)
\* the confirmed pairs of a search that takes the rows 0, 1, ... in order
\* against the whole similarity matrix, as one chunk does
ScanRows(a, vis, acc) ==
    IF a >= NumRemaining THEN acc
    ELSE IF a \in vis THEN ScanRows(a + 1, vis, acc)
    ELSE LET hits == {s \in Positions \ {a} :
                        LET cos == CosineSimilarity(embeddings[a], embeddings[s]) IN
                        /\ IsCandidate(cos)
                        /\ AboveThreshold(cos, Overlap(texts[a], texts[s]))}
         IN  ScanRows(a + 1,
                      IF hits = {} THEN vis ELSE vis \cup hits \cup {a},
                      acc \cup {<<remaining[a + 1], remaining[s + 1]>> : s \in hits})

\* every row of every chunk has been processed
SearchComplete == pc = "fuzzy" /\ chunk_i + chunk_row >= NumRemaining

\* C10: for every chunk size, the (anchor, candidate) pairs confirmed by the
\* chunked search are those of the search done as a single chunk.
C10_ChunkSizeIndependent ==
    SearchComplete =>
        {<<t[1], t[2]>> : t \in confirmed} = ScanRows(0, {}, {})

\* a search in several chunks has confirmed a pair whose anchor lies in a
\* later chunk than its candidate
C10_Witness ==
    /\ SearchComplete
    /\ chunk_size < NumRemaining
    /\ \E a, s \in Positions :
          /\ s < chunk_size
          /\ a >= chunk_size
          /\ \E t \in confirmed : t[1] = RecordAt(a) /\ t[2] = RecordAt(s)

-----------------------------------------------------------------------------
(* Properties of the fused score (SpecFusion) *)

\* values of primary_threshold below 1.0, in score units
Thresholds == {0, 5000, PrimaryThreshold, Scale - 1}

\* the search is about to take the row at position a, and a is not visited
RowIsNext(a) ==
    /\ pc = "fuzzy"
    /\ chunk_row < EndIdx(chunk_i) - chunk_i
    /\ a = ActualIdx(chunk_i, chunk_row)
    /\ a \notin visited

\* the fused score of positions a and s is 1.0, exceeds every threshold below
\* 1.0, and the row of a, when it is taken, confirms s with confidence 1.0
FusedToOne(a, s) ==
    LET cos == CosineSimilarity(embeddings[a], embeddings[s])
        ov == Overlap(texts[a], texts[s])
    IN  /\ FinalScore(cos, ov) = Scale
        /\ \A thr \in Thresholds : ExceedsThreshold(cos, ov, thr)
        /\ RowIsNext(a) =>
              /\ s \in DOMAIN RowHits(chunk_i, chunk_row)
              /\ RowHits(chunk_i, chunk_row)[s] = Scale

\* C11 as stated: two distinct ungrouped records with cosine 1.0 and identical
\* token sets, empty ones included, have fused score 1.0 and are confirmed at
\* every primary_threshold below 1.0.
C11_FusionIdenticalTokens ==
    pc = "fuzzy" =>
        \A a, s \in Positions :
            (/\ a # s
             /\ CosineSimilarity(embeddings[a], embeddings[s]) = CosDen
             /\ TokenSet(texts[a]) = TokenSet(texts[s]))
                => FusedToOne(a, s)

\* C11 amended: two distinct ungrouped records with cosine 1.0 and identical
\* non-empty token sets have fused score 1.0 and are confirmed at every
\* primary_threshold below 1.0.
C11_FusionIdenticalNonEmpty ==
    pc = "fuzzy" =>
        \A a, s \in Positions :
            (/\ a # s
             /\ CosineSimilarity(embeddings[a], embeddings[s]) = CosDen
             /\ TokenSet(texts[a]) = TokenSet(texts[s])
             /\ TokenSet(texts[a]) # {})
                => FusedToOne(a, s)

\* a row has confirmed, with confidence 1.0, a record whose normalized text
\* differs from its own and has the same tokens
C11_Witness ==
    /\ pc = "fuzzy"
    /\ \E a, s \in Positions :
          /\ texts[a] # texts[s]
          /\ TokenSet(texts[a]) = TokenSet(texts[s])
          /\ <<RecordAt(a), RecordAt(s), Scale>> \in confirmed
          /\ df[RecordAt(s)].confidence = Scale

-----------------------------------------------------------------------------
(* Properties of the annotations (Spec) *)

\* C12: in every state of a run, every record's confidence is null or a value
\* in [0, 1], whatever the scoring adjudicator answers.
C12_ConfidenceInUnitInterval ==
    \A r \in Records :
        \/ df[r].confidence = NaN
        \/ (0 <= df[r].confidence /\ df[r].confidence <= Scale)

\* C13: once ExactMatchStep has run, two records with the same non-null
\* item_code and no barcode hold one and the same group_id and the match_type
\* label exact:item_code, in every later state of the run and at its end.
C13_ExactItemCodeLabel ==
    "ExactMatchStep" \in ran =>
        \A r1, r2 \in Records :
            (/\ r1 # r2
             /\ tbl[r1].item_code # NullKey
             /\ tbl[r1].item_code = tbl[r2].item_code
             /\ tbl[r1].barcode = NullKey /\ tbl[r2].barcode = NullKey)
                => /\ ~IsNa(df[r1].group_id)
                   /\ df[r1].group_id = df[r2].group_id
                   /\ df[r1].match_type = "exact:item_code"
                   /\ df[r2].match_type = "exact:item_code"

\* the match_type labels of ExactMatchStep
ExactLabels == {"exact_item_code", "exact_barcode"}

\* C14: a record in an exact group keeps its group_id and its exact match_type
\* through every step of the run, and the similarity stage changes only
\* records whose group_id was null when the stage started.
C14_ExactGroupsKept ==
    [][/\ \A r \in Records :
             df[r].match_type \in ExactLabels =>
                 /\ df'[r].group_id = df[r].group_id
                 /\ df'[r].match_type = df[r].match_type
       /\ pc = "fuzzy" =>
             \A r \in Records : df'[r] # df[r] => IsNa(snap[r].group_id)]_vars

\* a run has ended with an exact group in place, after the similarity stage
\* confirmed a pair among the other records and every later step ran
C14_Witness ==
    /\ pc = "done"
    /\ \E r \in Records : df[r].match_type \in ExactLabels /\ ~IsNa(df[r].group_id)
    /\ \E t \in confirmed : df[t[2]].confidence = t[3]

-----------------------------------------------------------------------------
(* Properties of the groups of the similarity stage (Spec) *)

\* the position in remaining of record r
PosOf(r) == CHOOSE p \in Positions : RecordAt(p) = r

\* record r passed both tests of the row of record x
DirectlyConfirmed(x, r) ==
    LET cos == CosineSimilarity(embeddings[PosOf(x)], embeddings[PosOf(r)])
        ov == Overlap(texts[PosOf(x)], texts[PosOf(r)])
    IN  /\ IsCandidate(cos)
        /\ AboveThreshold(cos, ov)

PairScore(x, r) ==
    FinalScore(CosineSimilarity(embeddings[PosOf(x)], embeddings[PosOf(r)]),
               Overlap(texts[PosOf(x)], texts[PosOf(r)]))

\* C15: throughout the similarity stage and when it finishes, every record
\* holding the fuzzy group id of anchor x was itself confirmed against x
\* (cosine above the candidate floor, fused score above the threshold) and
\* carries its own fused score with x as confidence.
C15_NoTransitiveClosure ==
    pc = "fuzzy" =>
        \A r \in Records :
            (~IsNa(df[r].group_id) /\ IsFuzzyId(df[r].group_id)) =>
                LET x == df[r].group_id[2] IN
                /\ x # r
                /\ DirectlyConfirmed(x, r)
                /\ df[r].confidence = PairScore(x, r)
                /\ df[r].match_type = "fuzzy_hybrid"

\* the search is complete; record r is in the group of anchor x, record y
\* would be confirmed against r but not against x, and y is not in x's group
C15_Witness ==
    /\ pc = "fuzzy"
    /\ chunk_i + chunk_row >= NumRemaining
    /\ \E x, r, y \in {RecordAt(p) : p \in Positions} :
          /\ x # r /\ y # r /\ y # x
          /\ df[r].group_id = <<"fuzzy", x>>
          /\ DirectlyConfirmed(y, r)
          /\ ~DirectlyConfirmed(x, y)
          /\ df[y].group_id # <<"fuzzy", x>>

-----------------------------------------------------------------------------
(* Properties of HumanReviewStep and LLMAssistedStep (SpecDownstream) *)

\* the ambiguous label with a confidence below 0.8
BelowReview(rec) ==
    rec.match_type = "fuzzy_embedding" /\ ConfLt(rec.confidence, ReviewThreshold)

\* C16: after HumanReviewStep, review_required is true on exactly the records
\* that had the ambiguous label and a confidence below 0.8 (none was flagged
\* before), and group_id, match_type and confidence of every record are as
\* they were before the step.
C16_ReviewPurelyAdditive ==
    pc = "cleanup" =>
        \A r \in Records :
            /\ df[r].group_id = snap[r].group_id
            /\ df[r].match_type = snap[r].match_type
            /\ df[r].confidence = snap[r].confidence
            /\ df[r].review_required = (snap[r].review_required \/ BelowReview(snap[r]))

\* the step has flagged a record of a group and left unflagged a record with
\* the ambiguous label at 0.92 and a record discarded at a confidence below 0.8
C16_Witness ==
    /\ pc = "cleanup"
    /\ \E r \in Records : df[r].review_required /\ ~IsNa(df[r].group_id)
    /\ \E r \in Records :
          /\ ~df[r].review_required
          /\ df[r].match_type = "fuzzy_embedding"
          /\ df[r].confidence = 9200
    /\ \E r \in Records :
          /\ ~df[r].review_required
          /\ df[r].match_type = "rerank_discarded"
          /\ ConfLt(df[r].confidence, ReviewThreshold)

\* the response says yes / says no
RespYes(outcome) == outcome.kind = "text" /\ Contains(Lower(outcome.text), <<"y", "e", "s">>)

RespNo(outcome) == outcome.kind = "text" /\ Lower(outcome.text) = <<"n", "o">>

\* C17: after LLMAssistedStep, a group of two or more with an ambiguous
\* member was sent to the adjudicator: on "yes" every member is llm_matched
\* and keeps the group_id, on "no" every member has group_id null and is
\* llm_discarded, members outside the ambiguous band included; a group with
\* no ambiguous member was not sent and is unchanged.
C17_VerdictOnWholeGroup ==
    pc = "review" =>
        \A g \in {snap[r].group_id : r \in Records} \ {NoGroup} :
            LET members == Holders(snap, g) IN
            IF \E r \in members : IsAmbiguous(snap[r])
            THEN Cardinality(members) >= 2 =>
                    /\ g \in DOMAIN llm_resp
                    /\ RespYes(llm_resp[g]) =>
                          \A r \in members :
                              /\ df[r].match_type = "llm_matched"
                              /\ df[r].group_id = g
                              /\ df[r].confidence = snap[r].confidence
                    /\ RespNo(llm_resp[g]) =>
                          \A r \in members :
                              /\ df[r].match_type = "llm_discarded"
                              /\ IsNa(df[r].group_id)
            ELSE /\ g \notin DOMAIN llm_resp
                 /\ \A r \in members : df[r] = snap[r]

\* a "no" has discarded one group and a "yes" has matched another, each with
\* a member outside the ambiguous band
C17_Witness ==
    /\ pc = "review"
    /\ \E g1, g2 \in DOMAIN llm_resp :
          /\ RespNo(llm_resp[g1])
          /\ \E r \in Holders(snap, g1) :
                ~IsAmbiguous(snap[r]) /\ df[r].match_type = "llm_discarded"
          /\ RespYes(llm_resp[g2])
          /\ \E r \in Holders(df, g2) :
                ~IsAmbiguous(snap[r]) /\ df[r].match_type = "llm_matched"

-----------------------------------------------------------------------------
(* The ambiguous label in a run from an unannotated table (Spec) *)

\* C18: in a run from an unannotated table no record ever has match_type
\* fuzzy_embedding, llm_matched or llm_discarded or review_required true,
\* LLMAssistedStep calls the adjudicator for no group and changes no record.
C18_AmbiguousLabelUnreachable ==
    /\ \A r \in Records :
          /\ df[r].match_type \notin {"fuzzy_embedding", "llm_matched", "llm_discarded"}
          /\ ~df[r].review_required
    /\ DOMAIN llm_resp = {}
    /\ pc = "review" => df = snap

\* LLMAssistedStep and HumanReviewStep have run on a table with a group of
\* two records whose confidence 0.85 lies in the ambiguous band
C18_Witness ==
    /\ pc = "cleanup"
    /\ {"LLMAssistedStep", "HumanReviewStep"} \subseteq ran
    /\ \E r1, r2 \in Records :
          /\ r1 # r2
          /\ ~IsNa(df[r1].group_id)
          /\ df[r1].group_id = df[r2].group_id
          /\ df[r1].confidence = 8500

====
